---- MODULE Spec2Model ----
(***************************************************************************)
(* adventureworks-mcp: the db.select tool (query guard and bounded         *)
(* executor, src/src/mcp/tools/queryTools.ts) and the schema cache         *)
(* (SchemaService, src/src/features/schema.ts).                            *)
(*                                                                         *)
(* SQL texts are sequences of one-character strings, so that the regular   *)
(* expressions and string methods of the guard are computed character by   *)
(* character, as the code computes them.                                   *)
(***************************************************************************)
EXTENDS Integers, Sequences, FiniteSets, TLC

VARIABLES
  pc,            \* db.select: "idle", "awaiting" (the executor call), "done"
  req,           \* db.select: the arguments of the tool call being handled
  calls,         \* db.select: the batches this invocation sent to the executor
  resp,          \* db.select: the response returned to the caller
  execErr,       \* db.select: what the executor threw in this invocation
  connRowcount,  \* the ROWCOUNT setting of the pooled connection
  tablesCache,   \* SchemaService.tablesCache: <<>> for null, <<list>> when set
  columnsCache,  \* SchemaService.columnsCache: cache key -> <<>> or <<list>>
  dbTables,      \* the base tables the configured schema holds now
  dbAltered,     \* the tables whose columns were altered since start-up
  sproc,         \* the calls of SchemaService in progress, one per caller
  beganBeforeClear,  \* history: the callers whose call began before the last
                 \* clearCache() and has not been handed back yet
  boot,          \* index.ts: how far start-up has come
  envSchema,     \* process.env.DB_SCHEMA: <<>> when unset, <<name>> when set
  dotenvSchema,  \* DB_SCHEMA of the .env file: <<>> when it has none
  schemaNameFromEnv,  \* schema.ts: the module constant read when it is loaded
  registered,    \* the tool names of the server created for the request
  tool,          \* the schema tool handler invocation in progress
  pool,          \* SQLClient.pool: 0 for null, else the number of a pool
  pools,         \* the connection pools created so far, by number
  qproc          \* the SQLClient.query calls in progress, one per caller

selectVars == <<pc, req, calls, resp, execErr, connRowcount>>

schemaVars ==
  <<tablesCache, columnsCache, dbTables, dbAltered, sproc, beganBeforeClear>>

toolVars == <<boot, envSchema, dotenvSchema, schemaNameFromEnv, registered, tool>>

poolVars == <<pool, pools, qproc>>

vars == <<selectVars, schemaVars, toolVars, poolVars>>

(***************************************************************************)
(* Bounds of the model.                                                    *)
(***************************************************************************)
\* number of vocabulary chunks appended to a head to build a db.select input
MaxChunks == 3
\* rows the database has available for an accepted statement (0 or this many)
MaxAvail == 2
\* concurrent callers of SchemaService
NProc == 2
\* connection pools the process creates before it stops creating more
MaxPools == 3

(***************************************************************************)
(* Characters.                                                             *)
(***************************************************************************)
LowerLetters ==
  <<"a","b","c","d","e","f","g","h","i","j","k","l","m",
    "n","o","p","q","r","s","t","u","v","w","x","y","z">>

UpperLetters ==
  <<"A","B","C","D","E","F","G","H","I","J","K","L","M",
    "N","O","P","Q","R","S","T","U","V","W","X","Y","Z">>

Digits == {"0","1","2","3","4","5","6","7","8","9"}

\* \w of a JavaScript regular expression: [A-Za-z0-9_]
WordChars ==
  {LowerLetters[i] : i \in 1..26} \cup {UpperLetters[i] : i \in 1..26}
    \cup Digits \cup {"_"}

\* what String.prototype.trim removes (the ones the inputs can hold)
WhiteSpace == {" ", "\t", "\n", "\r"}

\* what "." of a regular expression does not match, and "$" with /m stops at
LineTerminators == {"\n", "\r"}

IsWordChar(c) == c \in WordChars

Min2(a, b) == IF a <= b THEN a ELSE b

SetMin(S) == CHOOSE x \in S : \A y \in S : x <= y

(***************************************************************************)
(* String methods used by the handler.                                     *)
(***************************************************************************)
ToUpperChar(c) ==
  IF \E i \in 1..26 : LowerLetters[i] = c
  THEN UpperLetters[CHOOSE i \in 1..26 : LowerLetters[i] = c]
  ELSE c

\* String.prototype.toUpperCase
toUpperCase(s) == [i \in 1..Len(s) |-> ToUpperChar(s[i])]

RECURSIVE trimStart(_)
trimStart(s) ==
  IF s # <<>> /\ s[1] \in WhiteSpace THEN trimStart(Tail(s)) ELSE s

RECURSIVE trimEnd(_)
trimEnd(s) ==
  IF s # <<>> /\ s[Len(s)] \in WhiteSpace
  THEN trimEnd(SubSeq(s, 1, Len(s) - 1))
  ELSE s

\* String.prototype.trim
trim(s) == trimEnd(trimStart(s))

\* q.includes(";"), q.indexOf(";") !== -1
includes(s, c) == \E i \in 1..Len(s) : s[i] = c

\* q.endsWith(";")
endsWith(s, c) == s # <<>> /\ s[Len(s)] = c

\* q.slice(0, -1)
sliceDropLast(s) == SubSeq(s, 1, Len(s) - 1)

\* upper.startsWith(prefix)
startsWith(s, p) == Len(s) >= Len(p) /\ SubSeq(s, 1, Len(p)) = p

(***************************************************************************)
(* stripComments: sql.replace(/\/\*[\s\S]*?\*\//g, " ")                     *)
(*                   .replace(/--.*$/gm, " ")                              *)
(***************************************************************************)
\* index of the first "*/" that starts at or after from, 0 when there is none
BlockCloseAt(s, from) ==
  LET c == {j \in from..(Len(s) - 1) : s[j] = "*" /\ s[j + 1] = "/"}
  IN  IF c = {} THEN 0 ELSE SetMin(c)

\* first replace: every "/*", lazily up to the first "*/" after it, becomes " "
RECURSIVE ReplaceBlockComments(_)
ReplaceBlockComments(s) ==
  IF Len(s) < 2 THEN s
  ELSE IF s[1] = "/" /\ s[2] = "*" /\ BlockCloseAt(s, 3) # 0
       THEN <<" ">> \o ReplaceBlockComments(SubSeq(s, BlockCloseAt(s, 3) + 2, Len(s)))
       ELSE <<s[1]>> \o ReplaceBlockComments(Tail(s))

\* index of the first line terminator, Len(s) + 1 when there is none
LineEndAt(s) ==
  LET c == {j \in 1..Len(s) : s[j] \in LineTerminators}
  IN  IF c = {} THEN Len(s) + 1 ELSE SetMin(c)

\* second replace: every "--" up to the end of its line becomes " "
RECURSIVE ReplaceLineComments(_)
ReplaceLineComments(s) ==
  IF Len(s) < 2 THEN s
  ELSE IF s[1] = "-" /\ s[2] = "-"
       THEN <<" ">> \o ReplaceLineComments(SubSeq(s, LineEndAt(s), Len(s)))
       ELSE <<s[1]>> \o ReplaceLineComments(Tail(s))

stripComments_none(sql) == sql

stripComments(sql) == ReplaceLineComments(ReplaceBlockComments(sql))

(***************************************************************************)
(* containsForbiddenTokens and the INTO test: /\b(...)\b/.test(sqlUpper)    *)
(***************************************************************************)
ForbiddenList ==
  << <<"I","N","S","E","R","T">>,
     <<"U","P","D","A","T","E">>,
     <<"D","E","L","E","T","E">>,
     <<"D","R","O","P">>,
     <<"A","L","T","E","R">>,
     <<"C","R","E","A","T","E">>,
     <<"T","R","U","N","C","A","T","E">>,
     <<"M","E","R","G","E">>,
     <<"E","X","E","C">>,
     <<"E","X","E","C","U","T","E">>,
     <<"G","R","A","N","T">>,
     <<"R","E","V","O","K","E">>,
     <<"D","E","N","Y">>,
     <<"W","A","I","T","F","O","R">>,
     <<"D","B","C","C">>,
     <<"O","P","E","N","R","O","W","S","E","T">>,
     <<"O","P","E","N","D","A","T","A","S","O","U","R","C","E">>,
     <<"B","U","L","K">>,
     <<"S","H","U","T","D","O","W","N">> >>

KwSelect == <<"S","E","L","E","C","T">>
KwWith == <<"W","I","T","H">>
KwInto == <<"I","N","T","O">>

\* \bw\b matches at index i of s: w is there, with a word boundary on each side
MatchesWordAt(s, i, w) ==
  /\ i + Len(w) - 1 <= Len(s)
  /\ SubSeq(s, i, i + Len(w) - 1) = w
  /\ (i = 1 \/ ~IsWordChar(s[i - 1]))
  /\ (i + Len(w) - 1 = Len(s) \/ ~IsWordChar(s[i + Len(w)]))

\* /\bw\b/.test(s)
TestWord(s, w) == \E i \in 1..Len(s) : MatchesWordAt(s, i, w)

containsForbiddenTokens_atStart(sqlUpper) ==
  \E k \in 1..Len(ForbiddenList) : MatchesWordAt(sqlUpper, 1, ForbiddenList[k])

containsForbiddenTokens(sqlUpper) ==
  \E k \in 1..Len(ForbiddenList) : TestWord(sqlUpper, ForbiddenList[k])

\* /\bINTO\b/.test(upper)
containsInto(upper) == TestWord(upper, KwInto)

(***************************************************************************)
(* SchemaService (schema.ts): the table-list and column caches over the    *)
(* SQL executor, and the database the executor reads.                      *)
(***************************************************************************)
\* const DEFAULT_SCHEMA = "SalesLT"
DEFAULT_SCHEMA == "SalesLT"

\* function getTargetSchema() { return schemaNameFromEnv; }
getTargetSchema == schemaNameFromEnv

\* the schemas of the database
SchemaNames == {"SalesLT", "dbo"}

\* the table of the configured schema that is created, dropped and altered
SchemaTables == {"Product"}

\* objects that stay: a base table of this schema, a base table of another
\* schema, a view of this schema
StaticObjects ==
  { [name |-> "Customer", schema |-> "SalesLT", type |-> "BASE TABLE"],
    [name |-> "Person", schema |-> "dbo", type |-> "BASE TABLE"],
    [name |-> "vProducts", schema |-> "SalesLT", type |-> "VIEW"] }

\* the table names callers ask for: one of this schema, one of another
TableArgs == {"Product", "Person"}

\* INFORMATION_SCHEMA.TABLES as it stands
dbObjects ==
  StaticObjects \cup
    {[name |-> t, schema |-> DEFAULT_SCHEMA, type |-> "BASE TABLE"] : t \in dbTables}

\* ORDER BY TABLE_NAME
NameRank == <<"Customer", "Person", "Product", "vProducts">>

RankOf(n) == CHOOSE i \in 1..Len(NameRank) : NameRank[i] = n

RECURSIVE SortByName(_)
SortByName(S) ==
  IF S = {} THEN <<>>
  ELSE LET first == CHOOSE n \in S : \A m \in S : RankOf(n) <= RankOf(m)
       IN  <<first>> \o SortByName(S \ {first})

\* SELECT TABLE_NAME, TABLE_SCHEMA ... WHERE TABLE_SCHEMA = @schema
\*   AND TABLE_TYPE = 'BASE TABLE' ORDER BY TABLE_NAME
tablesQuery(schema) ==
  LET names == {o.name : o \in {x \in dbObjects :
                                  x.schema = schema /\ x.type = "BASE TABLE"}}
      sorted == SortByName(names)
  IN  [i \in 1..Len(sorted) |-> [tableName |-> sorted[i], schema |-> schema]]

\* the columns of a table or view, in ordinal position
columnsOf(t, altered) ==
  CASE t = "Customer" ->
         << [columnName |-> "CustomerID", dataType |-> "int", isNullable |-> "NO"],
            [columnName |-> "LastName", dataType |-> "nvarchar", isNullable |-> "NO"] >>
    [] t = "Person" ->
         << [columnName |-> "BusinessEntityID", dataType |-> "int", isNullable |-> "NO"] >>
    [] t = "vProducts" ->
         << [columnName |-> "Name", dataType |-> "nvarchar", isNullable |-> "NO"] >>
    [] OTHER ->
         IF altered
         THEN << [columnName |-> "ProductID", dataType |-> "int", isNullable |-> "NO"],
                 [columnName |-> "Name", dataType |-> "nvarchar", isNullable |-> "YES"],
                 [columnName |-> "Color", dataType |-> "nvarchar", isNullable |-> "YES"] >>
         ELSE << [columnName |-> "ProductID", dataType |-> "int", isNullable |-> "NO"],
                 [columnName |-> "Name", dataType |-> "nvarchar", isNullable |-> "NO"] >>

\* SELECT ... FROM INFORMATION_SCHEMA.COLUMNS WHERE TABLE_SCHEMA = @schema
\*   AND TABLE_NAME = @tableName ORDER BY ORDINAL_POSITION
columnsQuery(schema, tableName) ==
  IF \E o \in dbObjects : o.name = tableName /\ o.schema = schema
  THEN columnsOf(tableName, tableName \in dbAltered)
  ELSE <<>>

\* const cacheKey = `${schema}.${tableName}`
cacheKey(schema, tableName) == <<schema, ".", tableName>>

CacheKeys == {cacheKey(sch, t) : sch \in SchemaNames, t \in TableArgs}

\* tables.some((t) => t.tableName === tableName && t.schema === schema)
tableListed(tables, tableName, schema) ==
  \E i \in 1..Len(tables) :
    tables[i].tableName = tableName /\ tables[i].schema = schema

NoResult == [kind |-> "none", value |-> <<>>, schema |-> "", tableName |-> ""]

\* return result.recordset / return this.tablesCache
tablesResult(list) ==
  [kind |-> "tables", value |-> list, schema |-> "", tableName |-> ""]

\* return cached / return result.recordset
columnsResult(list) ==
  [kind |-> "columns", value |-> list, schema |-> "", tableName |-> ""]

\* throw new Error(`Table not found or not allowed: ${schema}.${tableName}`)
notFoundError(schema, tableName) ==
  [kind |-> "notFound", value |-> <<>>, schema |-> schema, tableName |-> tableName]

\* the rejection of SQLClient.query, passed on by the await
queryError ==
  [kind |-> "queryError", value |-> <<>>, schema |-> "", tableName |-> ""]

\* one lookup started by a tool handler: not started, pending, resolved with
\* a list, or rejected; bound is the @schema parameter it sent
NoTask == [st |-> "none", value |-> <<>>, bound |-> "", error |-> NoResult]

NoToolResponse ==
  [kind |-> "none", isError |-> FALSE, schema |-> "", tableName |-> "",
   columns |-> <<>>, tables |-> <<>>, primaryKeys |-> <<>>, foreignKeys |-> <<>>,
   error |-> NoResult]

\* no tool handler is running
IdleTool ==
  [pc |-> "idle", name |-> "", tableName |-> "", maxTables |-> <<>>,
   schema |-> "", tabs |-> NoTask, cols |-> NoTask, pks |-> NoTask,
   fks |-> NoTask, resp |-> NoToolResponse]

\* the process as SchemaService and db.select on their own see it: DB_SCHEMA
\* set nowhere, no schema tool running
ToolRestState ==
  /\ boot = "start"
  /\ envSchema = <<>>
  /\ dotenvSchema = <<>>
  /\ schemaNameFromEnv = DEFAULT_SCHEMA
  /\ registered = {}
  /\ tool = IdleTool

\* a caller at rest.  Besides the call's position, argument and result the
\* record keeps what the call has done: nq queries sent (ncol of them column
\* queries), stored cache assignments made, and miss, the cache entries the
\* call found absent when it began
IdleProc ==
  [pc |-> "idle", op |-> "", arg |-> "", tables |-> <<>>, result |-> NoResult,
   nq |-> 0, ncol |-> 0, unlisted |-> FALSE, stored |-> 0, miss |-> 0]

Procs == 1..NProc

\* a caller of SQLClient.query that has no call in progress
IdleQuery == [pc |-> "idle", mine |-> 0, used |-> 0, gotErrored |-> FALSE]

\* SQLClient before its first query: private static pool = null
PoolRestState ==
  /\ pool = 0
  /\ pools = <<>>
  /\ qproc = [p \in Procs |-> IdleQuery]

SchemaInitState ==
  /\ tablesCache = <<>>
  /\ columnsCache = [k \in CacheKeys |-> <<>>]
  /\ dbTables = SchemaTables
  /\ dbAltered = {}
  /\ sproc = [p \in Procs |-> IdleProc]
  /\ beganBeforeClear = {}

\* the names a caller can see listed now: in the database or in the cache
listedNow(t) ==
  \/ tableListed(tablesQuery(getTargetSchema), t, getTargetSchema)
  \/ (tablesCache # <<>> /\ tableListed(tablesCache[1], t, getTargetSchema))

\* getTables(): a hit returns the cached list, a miss sends the query
GetTablesCall(p) ==
  /\ sproc[p].pc = "idle"
  /\ IF tablesCache # <<>>
     THEN sproc' = [sproc EXCEPT ![p] =
            [IdleProc EXCEPT !.pc = "done", !.op = "getTables",
                             !.result = tablesResult(tablesCache[1])]]
     ELSE sproc' = [sproc EXCEPT ![p] =
            [IdleProc EXCEPT !.pc = "tablesWait", !.op = "getTables", !.nq = 1,
                             !.miss = 1]]
  /\ UNCHANGED <<tablesCache, columnsCache, dbTables, dbAltered>>
  /\ UNCHANGED <<selectVars, toolVars, poolVars, beganBeforeClear>>

\* getTableSchema(tableName): a column-cache hit returns the cached list;
\* otherwise getTables() is called, which hits or sends the table query
GetTableSchemaCall(p, t) ==
  /\ sproc[p].pc = "idle"
  /\ LET key == cacheKey(getTargetSchema, t)
         me == [IdleProc EXCEPT !.op = "getTableSchema", !.arg = t,
                                !.unlisted = ~listedNow(t)]
     IN  IF columnsCache[key] # <<>>
         THEN sproc' = [sproc EXCEPT ![p] =
                [me EXCEPT !.pc = "done",
                           !.result = columnsResult(columnsCache[key][1])]]
         ELSE IF tablesCache # <<>>
         THEN sproc' = [sproc EXCEPT ![p] =
                [me EXCEPT !.pc = "haveTables", !.tables = tablesCache[1],
                           !.miss = 1]]
         ELSE sproc' = [sproc EXCEPT ![p] =
                [me EXCEPT !.pc = "tablesWait", !.nq = 1, !.miss = 2]]
  /\ UNCHANGED <<tablesCache, columnsCache, dbTables, dbAltered>>
  /\ UNCHANGED <<selectVars, toolVars, poolVars, beganBeforeClear>>

TablesReturn_merge(p) ==
  /\ sproc[p].pc = "tablesWait"
  /\ LET list == tablesQuery(getTargetSchema)
         kept == IF tablesCache = <<>> THEN <<>> ELSE tablesCache[1]
     IN  /\ tablesCache' = <<kept \o list>>
         /\ sproc' = [sproc EXCEPT ![p] =
              IF sproc[p].op = "getTables"
              THEN [@ EXCEPT !.pc = "done", !.result = tablesResult(list),
                             !.stored = @ + 1]
              ELSE [@ EXCEPT !.pc = "haveTables", !.tables = list,
                             !.stored = @ + 1]]
  /\ UNCHANGED <<columnsCache, dbTables, dbAltered>>
  /\ UNCHANGED <<selectVars, toolVars, poolVars, beganBeforeClear>>

\* the table query resolves: this.tablesCache = result.recordset, and the
\* list is returned (to the caller, or to getTableSchema's await)
TablesReturn(p) ==
  /\ sproc[p].pc = "tablesWait"
  /\ LET list == tablesQuery(getTargetSchema)
     IN  /\ tablesCache' = <<list>>
         /\ sproc' = [sproc EXCEPT ![p] =
              IF sproc[p].op = "getTables"
              THEN [@ EXCEPT !.pc = "done", !.result = tablesResult(list),
                             !.stored = @ + 1]
              ELSE [@ EXCEPT !.pc = "haveTables", !.tables = list,
                             !.stored = @ + 1]]
  /\ UNCHANGED <<columnsCache, dbTables, dbAltered>>
  /\ UNCHANGED <<selectVars, toolVars, poolVars, beganBeforeClear>>

TablesFail_storeEmpty(p) ==
  /\ sproc[p].pc = "tablesWait"
  /\ sproc' = [sproc EXCEPT ![p] = [@ EXCEPT !.pc = "done", !.result = queryError]]
  /\ tablesCache' = << <<>> >>
  /\ UNCHANGED <<columnsCache, dbTables, dbAltered>>
  /\ UNCHANGED <<selectVars, toolVars, poolVars, beganBeforeClear>>

\* the table query rejects: the await throws and nothing is stored
TablesFail(p) ==
  /\ sproc[p].pc = "tablesWait"
  /\ sproc' = [sproc EXCEPT ![p] = [@ EXCEPT !.pc = "done", !.result = queryError]]
  /\ UNCHANGED <<tablesCache, columnsCache, dbTables, dbAltered>>
  /\ UNCHANGED <<selectVars, toolVars, poolVars, beganBeforeClear>>

\* getTableSchema resumes with the list: throw when the table is not in it,
\* else send the column query
CheckListed(p) ==
  /\ sproc[p].pc = "haveTables"
  /\ sproc' = [sproc EXCEPT ![p] =
       IF tableListed(sproc[p].tables, sproc[p].arg, getTargetSchema)
       THEN [@ EXCEPT !.pc = "columnsWait", !.tables = <<>>,
                      !.nq = @ + 1, !.ncol = @ + 1]
       ELSE [@ EXCEPT !.pc = "done", !.tables = <<>>,
                      !.result = notFoundError(getTargetSchema, sproc[p].arg)]]
  /\ UNCHANGED <<tablesCache, columnsCache, dbTables, dbAltered>>
  /\ UNCHANGED <<selectVars, toolVars, poolVars, beganBeforeClear>>

\* the column query resolves: this.columnsCache.set(cacheKey, result.recordset)
ColumnsReturn(p) ==
  /\ sproc[p].pc = "columnsWait"
  /\ LET list == columnsQuery(getTargetSchema, sproc[p].arg)
     IN  /\ columnsCache' =
               [columnsCache EXCEPT ![cacheKey(getTargetSchema, sproc[p].arg)] = <<list>>]
         /\ sproc' = [sproc EXCEPT ![p] =
               [@ EXCEPT !.pc = "done", !.result = columnsResult(list),
                          !.stored = @ + 1]]
  /\ UNCHANGED <<tablesCache, dbTables, dbAltered>>
  /\ UNCHANGED <<selectVars, toolVars, poolVars, beganBeforeClear>>

\* the column query rejects
ColumnsFail(p) ==
  /\ sproc[p].pc = "columnsWait"
  /\ sproc' = [sproc EXCEPT ![p] = [@ EXCEPT !.pc = "done", !.result = queryError]]
  /\ UNCHANGED <<tablesCache, columnsCache, dbTables, dbAltered>>
  /\ UNCHANGED <<selectVars, toolVars, poolVars, beganBeforeClear>>

\* the caller has its result and may call again
Return(p) ==
  /\ sproc[p].pc = "done"
  /\ sproc' = [sproc EXCEPT ![p] = IdleProc]
  /\ UNCHANGED <<tablesCache, columnsCache, dbTables, dbAltered>>
  /\ UNCHANGED <<selectVars, toolVars, poolVars>>

clearCache_tablesOnly(tables, columns) ==
  [tables |-> <<>>, columns |-> columns]

\* this.tablesCache = null; this.columnsCache.clear()
clearCache(tables, columns) ==
  [tables |-> <<>>, columns |-> [k \in DOMAIN columns |-> <<>>]]

\* clearCache() runs between the steps of the calls under way
ClearCache ==
  /\ tablesCache' = clearCache(tablesCache, columnsCache).tables
  /\ columnsCache' = clearCache(tablesCache, columnsCache).columns
  /\ UNCHANGED <<dbTables, dbAltered, sproc>>
  /\ UNCHANGED <<selectVars, toolVars, poolVars>>

\* the database changes under the service
CreateTable(t) ==
  /\ t \notin dbTables
  /\ dbTables' = dbTables \cup {t}
  /\ sproc' = [p \in Procs |->
       IF sproc[p].arg = t THEN [sproc[p] EXCEPT !.unlisted = FALSE] ELSE sproc[p]]
  /\ UNCHANGED <<tablesCache, columnsCache, dbAltered>>
  /\ UNCHANGED <<selectVars, toolVars, poolVars, beganBeforeClear>>

DropTable(t) ==
  /\ t \in dbTables
  /\ dbTables' = dbTables \ {t}
  /\ dbAltered' = dbAltered \ {t}
  /\ UNCHANGED <<tablesCache, columnsCache, sproc>>
  /\ UNCHANGED <<selectVars, toolVars, poolVars, beganBeforeClear>>

AlterTable(t) ==
  /\ t \in dbTables
  /\ t \notin dbAltered
  /\ dbAltered' = dbAltered \cup {t}
  /\ UNCHANGED <<tablesCache, columnsCache, dbTables, sproc>>
  /\ UNCHANGED <<selectVars, toolVars, poolVars, beganBeforeClear>>

SchemaInit ==
  /\ SchemaInitState
  /\ ToolRestState
  /\ PoolRestState
  /\ pc = "idle"
  /\ req = [sql |-> <<>>, maxRows |-> <<>>]
  /\ calls = <<>>
  /\ resp = [kind |-> "none", isError |-> FALSE, text |-> "", detail |-> "",
             rowCount |-> 0, cappedAt |-> 0]
  /\ execErr = [message |-> <<>>, asString |-> ""]
  /\ connRowcount = 0

SchemaNext ==
  \/ \E p \in Procs : GetTablesCall(p)
  \/ \E p \in Procs, t \in TableArgs : GetTableSchemaCall(p, t)
  \/ \E p \in Procs : TablesReturn(p)
  \/ \E p \in Procs : TablesFail(p)
  \/ \E p \in Procs : CheckListed(p)
  \/ \E p \in Procs : ColumnsReturn(p)
  \/ \E p \in Procs : ColumnsFail(p)
  \/ \E p \in Procs : Return(p) /\ UNCHANGED beganBeforeClear
  \/ ClearCache /\ UNCHANGED beganBeforeClear
  \/ \E t \in SchemaTables : CreateTable(t)
  \/ \E t \in SchemaTables : DropTable(t)
  \/ \E t \in SchemaTables : AlterTable(t)

\* SchemaService on its own, under concurrent callers and a changing database
SchemaSpec == SchemaInit /\ [][SchemaNext]_vars

\* SchemaService over a database that stays as it is, with clearCache() calls
\* and the history of which calls were under way at the last of them
StableInit ==
  /\ tablesCache = <<>>
  /\ columnsCache = [k \in CacheKeys |-> <<>>]
  /\ dbTables \in SUBSET SchemaTables
  /\ dbAltered \in SUBSET dbTables
  /\ sproc = [p \in Procs |-> IdleProc]
  /\ beganBeforeClear = {}
  /\ ToolRestState
  /\ PoolRestState
  /\ pc = "idle"
  /\ req = [sql |-> <<>>, maxRows |-> <<>>]
  /\ calls = <<>>
  /\ resp = [kind |-> "none", isError |-> FALSE, text |-> "", detail |-> "",
             rowCount |-> 0, cappedAt |-> 0]
  /\ execErr = [message |-> <<>>, asString |-> ""]
  /\ connRowcount = 0

StableNext ==
  \/ \E p \in Procs : GetTablesCall(p)
  \/ \E p \in Procs, t \in TableArgs : GetTableSchemaCall(p, t)
  \/ \E p \in Procs : TablesReturn(p)
  \/ \E p \in Procs : TablesFail(p)
  \/ \E p \in Procs : CheckListed(p)
  \/ \E p \in Procs : ColumnsReturn(p)
  \/ \E p \in Procs : ColumnsFail(p)
  \/ \E p \in Procs : Return(p) /\ beganBeforeClear' = beganBeforeClear \ {p}
  \/ ClearCache /\ beganBeforeClear' = {p \in Procs : sproc[p].pc # "idle"}

StableSpec == StableInit /\ [][StableNext]_vars

(***************************************************************************)
(* The schema tools (schemaTools.ts), the server factory (server.ts) and   *)
(* start-up (index.ts).                                                    *)
(***************************************************************************)
\* the primary-key columns the database holds for a schema
primaryKeyRows(schema) ==
  IF schema = "SalesLT"
  THEN {[tableName |-> "Customer", columnName |-> "CustomerID", keyOrdinal |-> 1]}
         \cup (IF "Product" \in dbTables
               THEN {[tableName |-> "Product", columnName |-> "ProductID", keyOrdinal |-> 1],
                     [tableName |-> "Product", columnName |-> "Name", keyOrdinal |-> 2]}
               ELSE {})
  ELSE {[tableName |-> "Person", columnName |-> "BusinessEntityID", keyOrdinal |-> 1]}

\* the orders in which a recordset can list a set of rows
Orderings(S) ==
  {f \in [1..Cardinality(S) -> S] : \A i, j \in 1..Cardinality(S) : f[i] = f[j] => i = j}

\* the foreign keys with both sides in the schema, ORDER BY fromTable, fkName
foreignKeysQuery(schema) ==
  IF schema = "SalesLT" /\ "Product" \in dbTables
  THEN << [fkName |-> "FK_Product_Customer", fromSchema |-> schema,
           fromTable |-> "Product", fromColumn |-> "ProductID",
           toSchema |-> schema, toTable |-> "Customer", toColumn |-> "CustomerID"] >>
  ELSE <<>>

\* allPrimaryKeys.filter((pk) => pk.tableName === tableName)
filterByTable(rows, tableName) ==
  SelectSeq(rows, LAMBDA pk : pk.tableName = tableName)

\* one step of the sort: x goes behind every row that does not compare greater
RECURSIVE insertByKeyOrdinal(_, _)
insertByKeyOrdinal(x, sorted) ==
  IF sorted = <<>> THEN <<x>>
  ELSE IF sorted[1].keyOrdinal - x.keyOrdinal > 0 THEN <<x>> \o sorted
  ELSE <<sorted[1]>> \o insertByKeyOrdinal(x, Tail(sorted))

sortByKeyOrdinal_unsorted(rows) == rows

\* .sort((a, b) => a.keyOrdinal - b.keyOrdinal), a stable sort
RECURSIVE sortByKeyOrdinal(_)
sortByKeyOrdinal(rows) ==
  IF rows = <<>> THEN <<>>
  ELSE insertByKeyOrdinal(rows[Len(rows)],
                          sortByKeyOrdinal(SubSeq(rows, 1, Len(rows) - 1)))

sliceTables_all(tablesAll, maxTables) == tablesAll

\* maxTables ? tablesAll.slice(0, maxTables) : tablesAll
sliceTables(tablesAll, maxTables) ==
  IF maxTables # <<>> /\ maxTables[1] # 0
  THEN SubSeq(tablesAll, 1, Min2(maxTables[1], Len(tablesAll)))
  ELSE tablesAll

\* maxTables: z.number().int().min(1).max(200).optional()
MinTablesSchema == 1
MaxTablesSchema == 200

contextInputOK(maxTables) ==
  maxTables = <<>> \/ (maxTables[1] >= MinTablesSchema /\ maxTables[1] <= MaxTablesSchema)

\* process.env.DB_SCHEMA ?? "SalesLT"
envSchemaOrDefault(env) == IF env = <<>> THEN "SalesLT" ELSE env[1]

\* the tool names each register function adds to a server
SchemaToolNames == {"db.describeTable", "db.getDatabaseContext"}
TestToolNames == {"sys.echo"}
QueryToolNames == {"db.select"}

\* registerSchemaTools(server); registerTestTools(server)
createAdventureWorksServer == SchemaToolNames \cup TestToolNames

\* the arguments the tools are called with
MaxTablesInputs == { <<>>, <<0>>, <<1>>, <<2>>, <<200>> }
ToolNames == SchemaToolNames \cup TestToolNames \cup QueryToolNames

pendingTask(schema) == [NoTask EXCEPT !.st = "pending", !.bound = schema]
resolvedTask(task, list) == [task EXCEPT !.st = "resolved", !.value = list]
rejectedTask(task, err) == [task EXCEPT !.st = "rejected", !.error = err]

Tasks(t) == {t.tabs, t.cols, t.pks, t.fks}

\* the handler threw: nothing is returned, the rejection leaves the handler
thrownResponse(err) == [NoToolResponse EXCEPT !.kind = "thrown", !.error = err]

toolInvalidParams == [NoToolResponse EXCEPT !.kind = "invalidParams", !.isError = TRUE]

toolNotRegistered == [NoToolResponse EXCEPT !.kind = "notRegistered", !.isError = TRUE]

\* JSON.stringify({ tableName, columns, primaryKeys })
describeTableResponse(t) ==
  [NoToolResponse EXCEPT
     !.kind = "toolResult", !.tableName = t.tableName, !.columns = t.cols.value,
     !.primaryKeys = sortByKeyOrdinal(filterByTable(t.pks.value, t.tableName))]

\* JSON.stringify({ schema, tables, primaryKeys, foreignKeys, note })
databaseContextResponse(t) ==
  [NoToolResponse EXCEPT
     !.kind = "toolResult", !.schema = t.schema,
     !.tables = sliceTables(t.tabs.value, t.maxTables),
     !.primaryKeys = t.pks.value, !.foreignKeys = t.fks.value]

\* await Promise.all([...]): the handler goes on when every lookup has
\* resolved, and throws as soon as one rejects
afterPromiseAll(t) ==
  IF t.pc # "running" THEN t
  ELSE IF \E k \in Tasks(t) : k.st = "rejected"
  THEN [t EXCEPT !.pc = "done",
                 !.resp = thrownResponse((CHOOSE k \in Tasks(t) : k.st = "rejected").error)]
  ELSE IF \E k \in Tasks(t) : k.st = "pending" THEN t
  ELSE [t EXCEPT !.pc = "done",
                 !.resp = IF t.name = "db.describeTable" THEN describeTableResponse(t)
                          ELSE databaseContextResponse(t)]

\* index.ts lines 8-12: the imports are evaluated first; schema.ts reads
\* process.env.DB_SCHEMA ?? DEFAULT_SCHEMA into its constant
LoadModules ==
  /\ boot = "start"
  /\ schemaNameFromEnv' = (IF envSchema = <<>> THEN DEFAULT_SCHEMA ELSE envSchema[1])
  /\ boot' = "loaded"
  /\ UNCHANGED <<envSchema, dotenvSchema, registered, tool>>
  /\ UNCHANGED <<selectVars, schemaVars, poolVars>>

\* index.ts line 14: dotenv.config() sets the variables of .env that the
\* environment does not have yet
DotenvConfig ==
  /\ boot = "loaded"
  /\ envSchema' = (IF envSchema = <<>> THEN dotenvSchema ELSE envSchema)
  /\ boot' = "configured"
  /\ UNCHANGED <<dotenvSchema, schemaNameFromEnv, registered, tool>>
  /\ UNCHANGED <<selectVars, schemaVars, poolVars>>

\* bootstrap(): await SchemaService.getTables() fills the table-list cache,
\* then app.listen
PrimeReturn ==
  /\ boot = "configured"
  /\ tablesCache' = <<tablesQuery(getTargetSchema)>>
  /\ boot' = "listening"
  /\ UNCHANGED <<envSchema, dotenvSchema, schemaNameFromEnv, registered, tool>>
  /\ UNCHANGED <<columnsCache, dbTables, dbAltered, sproc, beganBeforeClear>>
  /\ UNCHANGED <<selectVars, poolVars>>

\* bootstrap(): the priming query fails; the catch logs and nothing listens
PrimeFail ==
  /\ boot = "configured"
  /\ boot' = "failed"
  /\ UNCHANGED <<envSchema, dotenvSchema, schemaNameFromEnv, registered, tool>>
  /\ UNCHANGED <<selectVars, schemaVars, poolVars>>

\* app.post("/mcp"): a fresh server for the request
CreateServer ==
  /\ boot = "listening"
  /\ tool.pc = "idle"
  /\ registered = {}
  /\ registered' = createAdventureWorksServer
  /\ UNCHANGED <<boot, envSchema, dotenvSchema, schemaNameFromEnv, tool>>
  /\ UNCHANGED <<selectVars, schemaVars, poolVars>>

\* a call of a tool the server does not have
CallNotRegistered(name) ==
  /\ registered # {}
  /\ tool.pc = "idle"
  /\ name \notin registered
  /\ tool' = [IdleTool EXCEPT !.pc = "done", !.name = name, !.resp = toolNotRegistered]
  /\ UNCHANGED <<boot, envSchema, dotenvSchema, schemaNameFromEnv, registered>>
  /\ UNCHANGED <<selectVars, schemaVars, poolVars>>

\* db.describeTable: getTableSchema(tableName) runs to its first query or to
\* its end, getPrimaryKeys() sends its query, and Promise.all waits.  The
\* table list is cached since start-up, so getTables() inside getTableSchema
\* answers without a query.
DescribeTableCall(tableName) ==
  /\ "db.describeTable" \in registered
  /\ tool.pc = "idle"
  /\ tablesCache # <<>>
  /\ LET schema == getTargetSchema
         key == cacheKey(schema, tableName)
         cols == IF columnsCache[key] # <<>>
                 THEN resolvedTask(NoTask, columnsCache[key][1])
                 ELSE IF tableListed(tablesCache[1], tableName, schema)
                 THEN pendingTask(schema)
                 ELSE rejectedTask(NoTask, notFoundError(schema, tableName))
     IN  tool' = afterPromiseAll(
           [IdleTool EXCEPT !.pc = "running", !.name = "db.describeTable",
                            !.tableName = tableName, !.cols = cols,
                            !.pks = pendingTask(schema)])
  /\ UNCHANGED <<boot, envSchema, dotenvSchema, schemaNameFromEnv, registered>>
  /\ UNCHANGED <<selectVars, schemaVars, poolVars>>

\* db.getDatabaseContext: the schema name is read from the environment, the
\* table list comes from the cache, the two key queries are sent
GetDatabaseContextCall(maxTables) ==
  /\ "db.getDatabaseContext" \in registered
  /\ tool.pc = "idle"
  /\ tablesCache # <<>>
  /\ tool' =
       IF ~contextInputOK(maxTables)
       THEN [IdleTool EXCEPT !.pc = "done", !.name = "db.getDatabaseContext",
                             !.maxTables = maxTables, !.resp = toolInvalidParams]
       ELSE afterPromiseAll(
              [IdleTool EXCEPT !.pc = "running", !.name = "db.getDatabaseContext",
                               !.maxTables = maxTables,
                               !.schema = envSchemaOrDefault(envSchema),
                               !.tabs = resolvedTask(NoTask, tablesCache[1]),
                               !.pks = pendingTask(getTargetSchema),
                               !.fks = pendingTask(getTargetSchema)])
  /\ UNCHANGED <<boot, envSchema, dotenvSchema, schemaNameFromEnv, registered>>
  /\ UNCHANGED <<selectVars, schemaVars, poolVars>>

\* getTableSchema: the column query resolves, the column cache is set
ToolColumnsResolve ==
  /\ tool.cols.st = "pending"
  /\ LET list == columnsQuery(tool.cols.bound, tool.tableName)
     IN  /\ columnsCache' =
               [columnsCache EXCEPT ![cacheKey(tool.cols.bound, tool.tableName)] = <<list>>]
         /\ tool' = afterPromiseAll([tool EXCEPT !.cols = resolvedTask(@, list)])
  /\ UNCHANGED <<boot, envSchema, dotenvSchema, schemaNameFromEnv, registered>>
  /\ UNCHANGED <<tablesCache, dbTables, dbAltered, sproc, beganBeforeClear>>
  /\ UNCHANGED <<selectVars, poolVars>>

ToolColumnsReject ==
  /\ tool.cols.st = "pending"
  /\ tool' = afterPromiseAll([tool EXCEPT !.cols = rejectedTask(@, queryError)])
  /\ UNCHANGED <<boot, envSchema, dotenvSchema, schemaNameFromEnv, registered>>
  /\ UNCHANGED <<selectVars, schemaVars, poolVars>>

\* getPrimaryKeys: the query resolves, the rows in whichever order
PrimaryKeysResolve ==
  /\ tool.pks.st = "pending"
  /\ \E rows \in Orderings(primaryKeyRows(tool.pks.bound)) :
       tool' = afterPromiseAll([tool EXCEPT !.pks = resolvedTask(@, rows)])
  /\ UNCHANGED <<boot, envSchema, dotenvSchema, schemaNameFromEnv, registered>>
  /\ UNCHANGED <<selectVars, schemaVars, poolVars>>

PrimaryKeysReject ==
  /\ tool.pks.st = "pending"
  /\ tool' = afterPromiseAll([tool EXCEPT !.pks = rejectedTask(@, queryError)])
  /\ UNCHANGED <<boot, envSchema, dotenvSchema, schemaNameFromEnv, registered>>
  /\ UNCHANGED <<selectVars, schemaVars, poolVars>>

\* getForeignKeys: the query resolves
ForeignKeysResolve ==
  /\ tool.fks.st = "pending"
  /\ tool' = afterPromiseAll(
       [tool EXCEPT !.fks = resolvedTask(@, foreignKeysQuery(tool.fks.bound))])
  /\ UNCHANGED <<boot, envSchema, dotenvSchema, schemaNameFromEnv, registered>>
  /\ UNCHANGED <<selectVars, schemaVars, poolVars>>

ForeignKeysReject ==
  /\ tool.fks.st = "pending"
  /\ tool' = afterPromiseAll([tool EXCEPT !.fks = rejectedTask(@, queryError)])
  /\ UNCHANGED <<boot, envSchema, dotenvSchema, schemaNameFromEnv, registered>>
  /\ UNCHANGED <<selectVars, schemaVars, poolVars>>

\* the response is out and every lookup has settled: res "close" closes the
\* request's server
ToolClose ==
  /\ tool.pc = "done"
  /\ \A k \in Tasks(tool) : k.st # "pending"
  /\ tool' = IdleTool
  /\ registered' = {}
  /\ UNCHANGED <<boot, envSchema, dotenvSchema, schemaNameFromEnv>>
  /\ UNCHANGED <<selectVars, schemaVars, poolVars>>

\* the process starts with DB_SCHEMA set in its environment or not, and in
\* its .env file or not
ToolInit ==
  /\ boot = "start"
  /\ envSchema \in {<<>>, <<"dbo">>}
  /\ dotenvSchema \in {<<>>, <<"dbo">>, <<"SalesLT">>}
  /\ schemaNameFromEnv = ""
  /\ registered = {}
  /\ tool = IdleTool
  /\ PoolRestState
  /\ tablesCache = <<>>
  /\ columnsCache = [k \in CacheKeys |-> <<>>]
  /\ dbTables = SchemaTables
  /\ dbAltered = {}
  /\ sproc = [p \in Procs |-> IdleProc]
  /\ beganBeforeClear = {}
  /\ pc = "idle"
  /\ req = [sql |-> <<>>, maxRows |-> <<>>]
  /\ calls = <<>>
  /\ resp = [kind |-> "none", isError |-> FALSE, text |-> "", detail |-> "",
             rowCount |-> 0, cappedAt |-> 0]
  /\ execErr = [message |-> <<>>, asString |-> ""]
  /\ connRowcount = 0

ToolNext ==
  \/ LoadModules
  \/ DotenvConfig
  \/ PrimeReturn
  \/ PrimeFail
  \/ CreateServer
  \/ \E name \in ToolNames : CallNotRegistered(name)
  \/ \E t \in TableArgs : DescribeTableCall(t)
  \/ \E m \in MaxTablesInputs : GetDatabaseContextCall(m)
  \/ ToolColumnsResolve
  \/ ToolColumnsReject
  \/ PrimaryKeysResolve
  \/ PrimaryKeysReject
  \/ ForeignKeysResolve
  \/ ForeignKeysReject
  \/ ToolClose
  \/ \E t \in SchemaTables : CreateTable(t)
  \/ \E t \in SchemaTables : DropTable(t)
  \/ \E t \in SchemaTables : AlterTable(t)

\* the server from start-up on, one schema tool call at a time
ToolSpec == ToolInit /\ [][ToolNext]_vars

(***************************************************************************)
(* SQLClient: the connection pool singleton (schemaTools.ts).              *)
(***************************************************************************)
\* new sql.ConnectionPool(config), before connect() has settled
NewPool == [st |-> "connecting", errored |-> FALSE]

\* SQLClient.query: getPool() returns the stored pool and the request is
\* sent on it, or creates a pool, subscribes to its "error" event and waits
\* for connect()
QueryCall(p) ==
  /\ qproc[p].pc = "idle"
  /\ IF pool # 0
     THEN /\ qproc' = [qproc EXCEPT ![p] =
                 [IdleQuery EXCEPT !.pc = "querying", !.used = pool,
                                   !.gotErrored = pools[pool].errored]]
          /\ UNCHANGED <<pool, pools>>
     ELSE /\ Len(pools) < MaxPools
          /\ pools' = Append(pools, NewPool)
          /\ qproc' = [qproc EXCEPT ![p] =
                 [IdleQuery EXCEPT !.pc = "connecting", !.mine = Len(pools) + 1]]
          /\ UNCHANGED pool
  /\ UNCHANGED <<selectVars, schemaVars, toolVars>>

\* this.pool = await pool.connect(); return this.pool; the request is sent
ConnectResolve(p) ==
  /\ qproc[p].pc = "connecting"
  /\ pools' = [pools EXCEPT ![qproc[p].mine].st = "connected"]
  /\ pool' = qproc[p].mine
  /\ qproc' = [qproc EXCEPT ![p].pc = "querying", ![p].used = qproc[p].mine]
  /\ UNCHANGED <<selectVars, schemaVars, toolVars>>

\* pool.connect() rejects: the await throws, nothing is assigned
ConnectReject(p) ==
  /\ qproc[p].pc = "connecting"
  /\ pools' = [pools EXCEPT ![qproc[p].mine].st = "failed"]
  /\ qproc' = [qproc EXCEPT ![p].pc = "failed"]
  /\ UNCHANGED pool
  /\ UNCHANGED <<selectVars, schemaVars, toolVars>>

\* pool.on("error"): this.pool = null, whichever pool emitted the event and
\* whether its connect() has settled or not
PoolError(i) ==
  /\ i \in DOMAIN pools
  /\ pools[i].st \in {"connecting", "connected"}
  /\ ~pools[i].errored
  /\ pools' = [pools EXCEPT ![i].errored = TRUE]
  /\ pool' = 0
  /\ UNCHANGED qproc
  /\ UNCHANGED <<selectVars, schemaVars, toolVars>>

\* the request's promise settles, or the failed getPool() rejects the call
QueryDone(p) ==
  /\ qproc[p].pc \in {"querying", "failed"}
  /\ qproc' = [qproc EXCEPT ![p] = IdleQuery]
  /\ UNCHANGED <<pool, pools>>
  /\ UNCHANGED <<selectVars, schemaVars, toolVars>>

PoolInit ==
  /\ PoolRestState
  /\ SchemaInitState
  /\ ToolRestState
  /\ pc = "idle"
  /\ req = [sql |-> <<>>, maxRows |-> <<>>]
  /\ calls = <<>>
  /\ resp = [kind |-> "none", isError |-> FALSE, text |-> "", detail |-> "",
             rowCount |-> 0, cappedAt |-> 0]
  /\ execErr = [message |-> <<>>, asString |-> ""]
  /\ connRowcount = 0

PoolNext ==
  \/ \E p \in Procs : QueryCall(p)
  \/ \E p \in Procs : ConnectResolve(p)
  \/ \E p \in Procs : ConnectReject(p)
  \/ \E i \in 1..MaxPools : PoolError(i)
  \/ \E p \in Procs : QueryDone(p)

\* concurrent callers of SQLClient.query and pools that can emit "error"
PoolSpec == PoolInit /\ [][PoolNext]_vars

(***************************************************************************)
(* db.select: input schema, guard steps and envelope (queryTools.ts).      *)
(***************************************************************************)
\* maxRows is <<>> when the caller omits it and <<n>> when it gives n
DefaultMaxRows == 100
MaxRowsCap == 200
MinRowsSchema == 1
MaxRowsSchema == 200

\* inputSchema: sql: z.string().min(1), maxRows: z.number().int().min(1).max(200).optional()
inputSchemaOK(sql, maxRows) ==
  /\ Len(sql) >= 1
  /\ (maxRows = <<>> \/ (maxRows[1] >= MinRowsSchema /\ maxRows[1] <= MaxRowsSchema))

\* const limit = Math.min(maxRows ?? 100, 200)
limitOf(maxRows) ==
  Min2(IF maxRows = <<>> THEN DefaultMaxRows ELSE maxRows[1], MaxRowsCap)

\* let q = stripComments(sql).trim()
normalize(sql) == trim(stripComments(sql))

onlyTrailing_lastOnly(q) == endsWith(q, ";")

\* const onlyTrailing = q.endsWith(";") && q.slice(0, -1).indexOf(";") === -1
onlyTrailing(q) == endsWith(q, ";") /\ ~includes(sliceDropLast(q), ";")

\* q = q.slice(0, -1).trim()
dropTerminator(q) == trim(sliceDropLast(q))

\* upper.startsWith("SELECT") || upper.startsWith("WITH")
startsAllowed(upper) == startsWith(upper, KwSelect) \/ startsWith(upper, KwWith)

MsgMultiple == "Only a single SELECT statement is allowed (no multiple statements)."
MsgNotSelect == "Only SELECT queries are allowed (CTE starting with WITH is allowed)."
MsgForbidden == "Query rejected: forbidden keyword detected (write/exec/dangerous feature)."
MsgSqlError == "SQL Error: "
MsgJson == "{rowCount, cappedAt, data}"
MsgInvalidParams == "Invalid arguments for tool db.select"

NoResponse ==
  [kind |-> "none", isError |-> FALSE, text |-> "", detail |-> "",
   rowCount |-> 0, cappedAt |-> 0]

\* the SDK refuses a call whose arguments do not satisfy inputSchema
invalidParamsResponse ==
  [kind |-> "invalidParams", isError |-> TRUE, text |-> MsgInvalidParams,
   detail |-> "", rowCount |-> 0, cappedAt |-> 0]

\* return { isError: true, content: [{ type: "text", text }] }
rejectResponse(text) ==
  [kind |-> "toolResult", isError |-> TRUE, text |-> text, detail |-> "",
   rowCount |-> 0, cappedAt |-> 0]

\* the success return: JSON of { rowCount, cappedAt: limit, data }
okResponse(nrows, limit) ==
  [kind |-> "toolResult", isError |-> FALSE, text |-> MsgJson, detail |-> "",
   rowCount |-> nrows, cappedAt |-> limit]

\* err?.message ?? String(err)
errText(err) == IF err.message # <<>> THEN err.message[1] ELSE err.asString

catchResponse_swallow(err) == okResponse(0, 0)

\* catch (err): { isError: true, text: `SQL Error: ${err?.message ?? String(err)}` }
catchResponse(err) ==
  [kind |-> "toolResult", isError |-> TRUE, text |-> MsgSqlError,
   detail |-> errText(err), rowCount |-> 0, cappedAt |-> 0]

cappedBatch_upper(limit, q) == [rowcount |-> limit, stmt |-> toUpperCase(q)]

\* the envelope: SET ROWCOUNT ${limit}; ${q}; SET ROWCOUNT 0 inside TRY/CATCH
cappedBatch(limit, q) == [rowcount |-> limit, stmt |-> q]

\* The synchronous part of the handler, up to the executor call: the response
\* it returns at once (kind "none" when it goes on to the executor) and the
\* batch it sends (<<>> when it sends none).
handlerStart(sql, maxRows) ==
  LET limit == limitOf(maxRows)
      q0 == normalize(sql)
      hasSemi == includes(q0, ";")
      q == IF hasSemi /\ onlyTrailing(q0) THEN dropTerminator(q0) ELSE q0
      upper == toUpperCase(q)
  IN  IF hasSemi /\ ~onlyTrailing(q0)
      THEN [resp |-> rejectResponse(MsgMultiple), batch |-> <<>>]
      ELSE IF ~startsAllowed(upper)
      THEN [resp |-> rejectResponse(MsgNotSelect), batch |-> <<>>]
      ELSE IF containsForbiddenTokens(upper) \/ containsInto(upper)
      THEN [resp |-> rejectResponse(MsgForbidden), batch |-> <<>>]
      ELSE [resp |-> NoResponse, batch |-> <<cappedBatch(limit, q)>>]

(***************************************************************************)
(* Inputs of db.select.                                                    *)
(***************************************************************************)
Heads == { KwSelect, <<"w","i","t","h">> }

Vocabulary ==
  << <<"D","e","l","e","t","e">>, <<"x">>, <<" ">>, <<";">>,
     <<"/","*">>, <<"*","/">>, <<"-","-">>, <<"\n">> >>

RECURSIVE ChunkTexts(_)
ChunkTexts(n) ==
  IF n = 0 THEN { <<>> }
  ELSE LET prev == ChunkTexts(n - 1)
       IN  prev \cup {t \o Vocabulary[k] : t \in prev, k \in 1..Len(Vocabulary)}

\* the statements the documentation and the tool description speak of
ExDeleteInCte ==
  <<"W","I","T","H"," ","x"," ","A","S"," ","(","S","E","L","E","C","T"," ","1",")"," ","D","E","L","E","T","E"," ","F","R","O","M"," ","x">>

ExSelectInto ==
  <<"S","E","L","E","C","T"," ","*"," ","I","N","T","O"," ","N","e","w","T","a","b","l","e"," ","F","R","O","M"," ","P","r","o","d","u","c","t">>

ExBlockComment ==
  <<"S","E","L","E","C","T"," ","1"," ","/","*"," ","D","E","L","E","T","E"," ","*","/">>

ExTrailingLineComment ==
  <<"S","E","L","E","C","T"," ","1",";"," ","-","-"," ","D","R","O","P"," ","T","A","B","L","E"," ","x">>

ExLowerCte ==
  <<"w","i","t","h"," ","c"," ","a","s"," ","(","s","e","l","e","c","t"," ","1"," ","a","s"," ","n",")"," ","s","e","l","e","c","t"," ","n"," ","f","r","o","m"," ","c"," ",";">>

ExPlain ==
  <<"S","E","L","E","C","T"," ","N","a","m","e"," ","F","R","O","M"," ","P","r","o","d","u","c","t">>

ExSelected ==
  <<"S","E","L","E","C","T","E","D"," ","1">>

ExWithdraw ==
  <<"W","I","T","H","D","R","A","W"," ","x">>

ExLeadingBlock ==
  <<"/","*"," ","D","e","l","e","t","e",";"," ","*","/"," ","s","e","l","e","c","t"," ","1">>

ExLeadingLine ==
  <<"-","-"," ","d","r","o","p",";","\n","S","E","L","E","C","T"," ","1">>

ExCommentOnly ==
  <<"/","*"," ","S","E","L","E","C","T"," ","1"," ","*","/">>

ExEmpty == <<>>

ExampleInputs ==
  {ExDeleteInCte, ExSelectInto, ExBlockComment, ExTrailingLineComment,
   ExLowerCte, ExPlain, ExSelected, ExWithdraw, ExLeadingBlock,
   ExLeadingLine, ExCommentOnly, ExEmpty}

\* every forbidden word and INTO: at the start, in a subquery, in a CTE body,
\* after a leading SELECT, and inside a longer identifier
AllKeywords == {ForbiddenList[k] : k \in 1..Len(ForbiddenList)} \cup {KwInto}

FrameSubqueryPre == <<"S","E","L","E","C","T"," ","1"," ","W","H","E","R","E"," ","x"," ","I","N"," ","(">>
FrameSubqueryPost == <<" ","y",")">>
FrameCtePre == <<"W","I","T","H"," ","c"," ","A","S"," ","(">>
FrameCtePost == <<" ","y",")"," ","S","E","L","E","C","T"," ","1">>
FrameAfterSelectPre == <<"S","E","L","E","C","T"," ">>
FrameIdentPre == <<"S","E","L","E","C","T"," ","x","_">>

KeywordInputs ==
  UNION {{ w \o <<" ", "y">>,
           FrameSubqueryPre \o w \o FrameSubqueryPost,
           FrameCtePre \o w \o FrameCtePost,
           FrameAfterSelectPre \o w,
           FrameIdentPre \o w } : w \in AllKeywords}

SqlInputs ==
  {h \o t : h \in Heads, t \in ChunkTexts(MaxChunks)} \cup ExampleInputs
    \cup KeywordInputs

MaxRowsInputs == { <<>>, <<-1>>, <<0>>, <<1>>, <<200>>, <<201>>, <<5000>> }

\* every text with maxRows omitted, and the examples with every maxRows
Requests ==
  {[sql |-> s, maxRows |-> <<>>] : s \in SqlInputs}
    \cup {[sql |-> s, maxRows |-> m] : s \in ExampleInputs, m \in MaxRowsInputs}

(***************************************************************************)
(* The executor as db.select sees it: SQLClient.query(cappedBatch) runs    *)
(* the batch on the pooled connection and resolves or rejects.             *)
(***************************************************************************)
NoRequest == [sql |-> <<>>, maxRows |-> <<>>]

NoError == [message |-> <<>>, asString |-> ""]

\* errors raised by the statement while it runs inside BEGIN TRY
RuntimeErrors ==
  { [message |-> <<"Divide by zero error encountered.">>,
     asString |-> "RequestError: Divide by zero error encountered."],
    [message |-> <<"The SELECT permission was denied on the object.">>,
     asString |-> "RequestError: The SELECT permission was denied on the object."] }

\* the request exceeded requestTimeout and the driver cancelled the batch
TimeoutErrors ==
  { [message |-> <<"Timeout: Request failed to complete in 30000ms">>,
     asString |-> "RequestError: Timeout: Request failed to complete in 30000ms"] }

\* a name of the statement does not resolve when the statement is reached
\* (deferred name resolution): the error ends the batch at the statement and
\* a CATCH block at the same level does not handle it
NameResolutionErrors ==
  { [message |-> <<"Invalid object name.">>,
     asString |-> "RequestError: Invalid object name."] }

\* failures that end the batch where it stands, outside TRY/CATCH handling
AbortErrors == TimeoutErrors \cup NameResolutionErrors

\* the batch never started: it does not compile, or no connection could be had
NotRunErrors ==
  { [message |-> <<"Incorrect syntax near the keyword.">>,
     asString |-> "RequestError: Incorrect syntax near the keyword."],
    [message |-> <<>>, asString |-> "ConnectionError"] }

\* SET ROWCOUNT n stops a statement after n rows; 0 means no limit
rowsReturned(rowcount, avail) ==
  IF rowcount = 0 THEN avail ELSE Min2(rowcount, avail)

Init ==
  /\ pc = "idle"
  /\ req = NoRequest
  /\ calls = <<>>
  /\ resp = NoResponse
  /\ execErr = NoError
  /\ connRowcount = 0
  /\ SchemaInitState
  /\ ToolRestState
  /\ PoolRestState

\* a tool call arrives: input validation, then the handler up to its await
DbSelectCall ==
  /\ pc = "idle"
  /\ \E r \in Requests :
       /\ req' = r
       /\ IF ~inputSchemaOK(r.sql, r.maxRows)
          THEN /\ resp' = invalidParamsResponse
               /\ calls' = <<>>
               /\ pc' = "done"
          ELSE \E h \in {handlerStart(r.sql, r.maxRows)} :
                   /\ resp' = h.resp
                   /\ calls' = h.batch
                   /\ pc' = IF h.batch = <<>> THEN "done" ELSE "awaiting"
  /\ UNCHANGED <<execErr, connRowcount>>
  /\ UNCHANGED <<schemaVars, toolVars, poolVars>>

\* the batch runs to its end: SET ROWCOUNT limit; q; SET ROWCOUNT 0
ExecSucceeds(avail) ==
  /\ pc = "awaiting"
  /\ connRowcount' = 0
  /\ resp' = okResponse(rowsReturned(calls[1].rowcount, avail), limitOf(req.maxRows))
  /\ pc' = "done"
  /\ UNCHANGED <<req, calls, execErr>>
  /\ UNCHANGED <<schemaVars, toolVars, poolVars>>

\* the statement raises inside TRY: CATCH runs SET ROWCOUNT 0 and THROWs
ExecRuntimeError(err) ==
  /\ pc = "awaiting"
  /\ connRowcount' = 0
  /\ execErr' = err
  /\ resp' = catchResponse(err)
  /\ pc' = "done"
  /\ UNCHANGED <<req, calls>>
  /\ UNCHANGED <<schemaVars, toolVars, poolVars>>

\* the request times out while the statement runs, or the statement names an
\* object that does not resolve: the batch ends where it stands, after
\* SET ROWCOUNT limit, and neither the rest of TRY nor CATCH runs
ExecAborted(err) ==
  /\ pc = "awaiting"
  /\ connRowcount' = calls[1].rowcount
  /\ execErr' = err
  /\ resp' = catchResponse(err)
  /\ pc' = "done"
  /\ UNCHANGED <<req, calls>>
  /\ UNCHANGED <<schemaVars, toolVars, poolVars>>

\* the batch never runs: no statement of it is executed
ExecNotRun(err) ==
  /\ pc = "awaiting"
  /\ execErr' = err
  /\ resp' = catchResponse(err)
  /\ pc' = "done"
  /\ UNCHANGED <<req, calls, connRowcount>>
  /\ UNCHANGED <<schemaVars, toolVars, poolVars>>

\* the response is delivered; the next tool call gets a fresh handler run
\* and the same pooled connection
Close ==
  /\ pc = "done"
  /\ pc' = "idle"
  /\ req' = NoRequest
  /\ calls' = <<>>
  /\ resp' = NoResponse
  /\ execErr' = NoError
  /\ UNCHANGED connRowcount
  /\ UNCHANGED <<schemaVars, toolVars, poolVars>>

Next ==
  \/ DbSelectCall
  \/ \E avail \in {0, MaxAvail} : ExecSucceeds(avail)
  \/ \E err \in RuntimeErrors : ExecRuntimeError(err)
  \/ \E err \in AbortErrors : ExecAborted(err)
  \/ \E err \in NotRunErrors : ExecNotRun(err)
  \/ Close

\* the db.select tool on its own
Spec == Init /\ [][Next]_vars

(***************************************************************************)
(* Reference notions the claims are stated with, computed independently    *)
(* of the handler: words by tokenising, semicolons by counting, comments   *)
(* by one left-to-right scan.                                              *)
(***************************************************************************)
\* index of the last character of the run of word characters that holds i
RunEnd(s, i) == SetMin({j \in i..Len(s) : j = Len(s) \/ ~IsWordChar(s[j + 1])})

\* the maximal runs of word characters of s: its whole words
WordRuns(s) ==
  {SubSeq(s, i, RunEnd(s, i)) :
     i \in {k \in 1..Len(s) : IsWordChar(s[k]) /\ (k = 1 \/ ~IsWordChar(s[k - 1]))}}

\* the first whole token of a trimmed text (empty when it starts with no word)
FirstToken(s) ==
  IF s = <<>> \/ ~IsWordChar(s[1]) THEN <<>> ELSE SubSeq(s, 1, RunEnd(s, 1))

CountChar(s, c) == Cardinality({i \in 1..Len(s) : s[i] = c})

HasBannedWord(text) == WordRuns(toUpperCase(text)) \cap AllKeywords # {}

\* s holds the two-character mark <<a, b>>
HasPair(s, a, b) == \E i \in 1..(Len(s) - 1) : s[i] = a /\ s[i + 1] = b

NoCommentMarks(s) ==
  ~HasPair(s, "/", "*") /\ ~HasPair(s, "*", "/") /\ ~HasPair(s, "-", "-")

\* One scan from the left, comments found in the order they start.
\* index just after the comment that starts s (s starts with a comment mark),
\* 0 for a "/*" that is never closed
CommentEnd(s) ==
  IF s[1] = "/"
  THEN LET ends == {j \in 3..(Len(s) - 1) : s[j] = "*" /\ s[j + 1] = "/"}
       IN  IF ends = {} THEN 0 ELSE SetMin(ends) + 2
  ELSE LET nls == {j \in 3..Len(s) : s[j] \in LineTerminators}
       IN  IF nls = {} THEN Len(s) + 1 ELSE SetMin(nls)

\* the characters between the marks of the comment that starts s
CommentBody(s) ==
  IF s[1] = "/" THEN SubSeq(s, 3, CommentEnd(s) - 3)
  ELSE SubSeq(s, 3, CommentEnd(s) - 1)

StartsComment(s) ==
  Len(s) >= 2 /\ ((s[1] = "/" /\ s[2] = "*") \/ (s[1] = "-" /\ s[2] = "-"))

\* the text with each comment turned into one space
RECURSIVE VisibleText(_)
VisibleText(s) ==
  IF Len(s) < 2 THEN s
  ELSE IF StartsComment(s) /\ CommentEnd(s) # 0
  THEN <<" ">> \o VisibleText(SubSeq(s, CommentEnd(s), Len(s)))
  ELSE <<s[1]>> \o VisibleText(Tail(s))

\* the comments are unambiguous: each "/*" is closed, no comment body holds
\* a comment mark, and no stray "*/" is left outside the comments
RECURSIVE CommentsUnambiguous(_)
CommentsUnambiguous(s) ==
  IF Len(s) < 2 THEN TRUE
  ELSE IF StartsComment(s)
  THEN /\ CommentEnd(s) # 0
       /\ NoCommentMarks(CommentBody(s))
       /\ CommentsUnambiguous(SubSeq(s, CommentEnd(s), Len(s)))
  ELSE /\ ~(s[1] = "*" /\ s[2] = "/")
       /\ CommentsUnambiguous(Tail(s))

\* the statement a comment-free text stands for: trimmed, one trailing
\* terminator removed
RefNormal(v) ==
  LET t == trim(v)
  IN  IF t # <<>> /\ t[Len(t)] = ";" THEN trim(SubSeq(t, 1, Len(t) - 1)) ELSE t

\* the guard's checks on a comment-free text
RefAccepts(v) ==
  LET n == CountChar(v, ";")
  IN  /\ n = 0 \/ (n = 1 /\ endsWith(trimEnd(v), ";"))
      /\ LET b == trimStart(v)
         IN  \/ (Len(b) >= 6 /\ toUpperCase(SubSeq(b, 1, 6)) = KwSelect)
             \/ (Len(b) >= 4 /\ toUpperCase(SubSeq(b, 1, 4)) = KwWith)
      /\ ~HasBannedWord(v)

GuardRejections == {MsgMultiple, MsgNotSelect, MsgForbidden}

Handled == req # NoRequest /\ inputSchemaOK(req.sql, req.maxRows)

TextSelect1 == <<"S","E","L","E","C","T"," ","1">>
TextLowerCte == <<"w","i","t","h"," ","c"," ","a","s"," ","(","s","e","l","e","c","t"," ","1"," ","a","s"," ","n",")"," ","s","e","l","e","c","t"," ","n"," ","f","r","o","m"," ","c">>

(***************************************************************************)
(* Claims about db.select.                                                 *)
(***************************************************************************)
\* C1: an input whose comment-stripped text holds, in any letter case and as
\* a whole word, a forbidden keyword or INTO, at any position, is answered
\* at once with a guard rejection, and no batch is sent to the executor.
C1_ForbiddenWordRejected ==
  (Handled /\ HasBannedWord(stripComments(req.sql))) =>
    /\ pc = "done"
    /\ calls = <<>>
    /\ resp.isError
    /\ resp.text \in GuardRejections

C1_Witness ==
  /\ pc = "done"
  /\ req.sql = ExDeleteInCte
  /\ resp = rejectResponse(MsgForbidden)
  /\ calls = <<>>

\* C2: an input whose first whole token (of the comment-stripped, trimmed
\* text, in any letter case) is neither SELECT nor WITH is rejected by the
\* guard and sends nothing to the executor; so is a first token that only
\* has SELECT or WITH as a prefix.
C2_FirstKeywordRejected ==
  (Handled /\ toUpperCase(FirstToken(normalize(req.sql))) \notin {KwSelect, KwWith}) =>
    /\ pc = "done"
    /\ calls = <<>>
    /\ resp.isError
    /\ resp.text \in GuardRejections

\* C3: when the comment-stripped, trimmed text holds a semicolon, the input
\* goes on to the executor only if there is exactly one and it is the last
\* character; any other count or place is rejected as multiple statements;
\* the statement sent has the terminator removed and is trimmed again.
C3_SingleTrailingSemicolon ==
  LET t == normalize(req.sql)
      n == CountChar(t, ";")
  IN  (Handled /\ n > 0) =>
        /\ (n >= 2 \/ t[Len(t)] # ";") =>
             (pc = "done" /\ calls = <<>> /\ resp = rejectResponse(MsgMultiple))
        /\ (calls # <<>>) =>
             /\ n = 1
             /\ t[Len(t)] = ";"
             /\ CountChar(calls[1].stmt, ";") = 0
             /\ calls[1].stmt = trim(SubSeq(t, 1, Len(t) - 1))

C3_Witness ==
  /\ req.sql = ExLowerCte
  /\ CountChar(normalize(req.sql), ";") = 1
  /\ calls # <<>>
  /\ calls[1].stmt = TextLowerCte

\* C4: comments are removed before the semicolon, shape and keyword checks.
\* When the comments of an input are unambiguous and the text outside them
\* passes the checks, the input is accepted and the statement sent is that
\* text, whatever keywords or semicolons the comments hold; and the two
\* documented inputs are accepted as SELECT 1.
C4_CommentsStrippedFirst ==
  /\ (Handled /\ CommentsUnambiguous(req.sql) /\ RefAccepts(VisibleText(req.sql))) =>
       /\ calls # <<>>
       /\ calls[1].stmt = RefNormal(VisibleText(req.sql))
       /\ resp.text \notin GuardRejections
  /\ (Handled /\ req.sql \in {ExBlockComment, ExTrailingLineComment}) =>
       /\ calls # <<>>
       /\ calls[1].stmt = TextSelect1
       /\ resp.text \notin GuardRejections

C4_Witness ==
  /\ req.sql = ExBlockComment
  /\ pc = "done"
  /\ calls = <<cappedBatch(DefaultMaxRows, TextSelect1)>>
  /\ ~resp.isError

\* C5: a batch is sent to the executor only for a valid input that passed
\* every guard check, its statement is exactly the comment-stripped,
\* trimmed, terminator-stripped input in its original letter case, and a
\* rejected input sends no batch.
C5_ExecutesOnlyAcceptedText ==
  /\ (calls # <<>>) =>
       /\ Handled
       /\ RefAccepts(stripComments(req.sql))
       /\ calls[1].stmt = RefNormal(stripComments(req.sql))
       /\ pc \in {"awaiting", "done"}
  /\ (resp.text \in GuardRejections \cup {MsgInvalidParams}) => calls = <<>>
  /\ (req # NoRequest /\ ~(Handled /\ RefAccepts(stripComments(req.sql)))) =>
       calls = <<>>

C5_Witness ==
  /\ req.sql = ExLowerCte
  /\ pc = "awaiting"
  /\ calls[1].stmt = TextLowerCte
  /\ calls[1].stmt # toUpperCase(TextLowerCte)

\* C6: the row limit of every batch and the cappedAt reported lie in
\* [1,200]; maxRows=5000 yields cappedAt=200, maxRows=0 or an omitted
\* maxRows yields cappedAt=100; no batch carries a row limit of 0 or less.
C6_MaxRowsClamped ==
  /\ (calls # <<>>) => (calls[1].rowcount >= 1 /\ calls[1].rowcount <= 200)
  /\ (pc = "done" /\ req # NoRequest /\ Len(req.sql) >= 1
        /\ RefAccepts(stripComments(req.sql)) /\ execErr = NoError) =>
       /\ ~resp.isError
       /\ resp.cappedAt >= 1 /\ resp.cappedAt <= 200
       /\ (req.maxRows = <<5000>>) => resp.cappedAt = 200
       /\ (req.maxRows \in {<<0>>, <<>>}) => resp.cappedAt = 100

\* C7: whenever no batch is running, the pooled connection carries no row
\* limit: every exit of the batch, failure and timeout included, has reset
\* ROWCOUNT to 0 before the outcome is returned.
C7_RowLimitAlwaysReset ==
  (pc \in {"idle", "done"}) => connRowcount = 0

\* C8: an invocation sends at most one batch, and when the executor fails
\* the response is an error-flagged tool result whose text is "SQL Error: "
\* followed by the executor's message.
C8_FailureSurfacedOnce ==
  /\ Len(calls) <= 1
  /\ (pc = "done" /\ execErr # NoError) =>
       /\ Len(calls) = 1
       /\ resp.kind = "toolResult"
       /\ resp.isError
       /\ resp.text = MsgSqlError
       /\ resp.detail = (IF execErr.message # <<>> THEN execErr.message[1]
                         ELSE execErr.asString)

C8_Witness ==
  /\ pc = "done"
  /\ execErr \in RuntimeErrors
  /\ Len(calls) = 1
  /\ resp.isError
  /\ resp.detail = "The SELECT permission was denied on the object."

(***************************************************************************)
(* Claims about SchemaService.                                             *)
(***************************************************************************)
\* C9: a getTableSchema call for a table that is in the configured
\* schema's table list neither when the call starts nor at any time while
\* it runs (not in the database, not in the cached list) sends no column
\* query, returns no column list, and ends with the not-found error naming
\* schema and table (or with the table query's own failure).
C9_UnlistedTableNotFound ==
  \A p \in Procs :
    (sproc[p].op = "getTableSchema" /\ sproc[p].unlisted) =>
      /\ sproc[p].ncol = 0
      /\ sproc[p].result.kind # "columns"
      /\ (sproc[p].pc = "done") =>
           sproc[p].result \in
             {notFoundError(getTargetSchema, sproc[p].arg), queryError}

\* C10: a populated cache entry keeps the identical value until clearCache()
\* empties it, whatever the database and other lookups in flight do; and a
\* call that finds its entry populated returns that value at once and sends
\* no query.
C10_CacheStableUntilCleared ==
  [][ /\ (tablesCache # <<>> /\ tablesCache' # <<>>) => tablesCache' = tablesCache
      /\ \A k \in CacheKeys :
           (columnsCache[k] # <<>> /\ columnsCache'[k] # <<>>) =>
             columnsCache'[k] = columnsCache[k]
      /\ \A p \in Procs :
           (sproc[p].pc = "idle" /\ sproc'[p].op = "getTables" /\ tablesCache # <<>>) =>
             /\ sproc'[p].pc = "done"
             /\ sproc'[p].result = tablesResult(tablesCache[1])
             /\ sproc'[p].nq = 0
      /\ \A p \in Procs :
           (sproc[p].pc = "idle" /\ sproc'[p].op = "getTableSchema"
              /\ columnsCache[cacheKey(getTargetSchema, sproc'[p].arg)] # <<>>) =>
             /\ sproc'[p].pc = "done"
             /\ sproc'[p].result =
                  columnsResult(columnsCache[cacheKey(getTargetSchema, sproc'[p].arg)][1])
             /\ sproc'[p].nq = 0
    ]_vars

\* C11: clearCache() empties the table-list cache and every column-cache
\* entry whatever they hold, and clearing twice gives what clearing once
\* gives; over a database that stays as it is, every list a call returns,
\* before or after a clear, is the database's answer, and the call sent one
\* query, and made one cache assignment, for each entry it found absent.
C11_ClearThenRefetch ==
  LET once == clearCache(tablesCache, columnsCache)
  IN  /\ once.tables = <<>>
      /\ \A k \in CacheKeys : once.columns[k] = <<>>
      /\ clearCache(once.tables, once.columns) = once
      /\ \A p \in Procs :
           (sproc[p].pc = "done" /\ sproc[p].result.kind \in {"tables", "columns"}) =>
             /\ sproc[p].result.value =
                  (IF sproc[p].op = "getTables"
                   THEN tablesQuery(getTargetSchema)
                   ELSE columnsQuery(getTargetSchema, sproc[p].arg))
             /\ sproc[p].nq = sproc[p].miss
             /\ sproc[p].stored = sproc[p].miss

\* a call that began before the clear holds the first fetch, a call that
\* began after it has fetched again, with one query, and holds the same list
C11_Witness ==
  \E p, q \in Procs :
    /\ q \in beganBeforeClear
    /\ sproc[q].pc = "done" /\ sproc[q].op = "getTableSchema"
    /\ sproc[q].result.kind = "columns" /\ sproc[q].result.value # <<>>
    /\ p \notin beganBeforeClear
    /\ sproc[p].pc = "done" /\ sproc[p].op = "getTableSchema"
    /\ sproc[p].arg = sproc[q].arg
    /\ sproc[p].miss = 2 /\ sproc[p].nq = 2
    /\ sproc[p].result = sproc[q].result

\* what one table query can answer, and what one column query can
RefTableLists ==
  { << [tableName |-> "Customer", schema |-> "SalesLT"] >>,
    << [tableName |-> "Customer", schema |-> "SalesLT"],
       [tableName |-> "Product", schema |-> "SalesLT"] >> }

RefColumnLists(t) == { <<>>, columnsOf(t, FALSE), columnsOf(t, TRUE) }

\* every list held by a cache, by a call or by a result is one whole answer
WholeValues ==
  /\ tablesCache # <<>> => tablesCache[1] \in RefTableLists
  /\ \A t \in TableArgs :
       columnsCache[cacheKey(getTargetSchema, t)] # <<>> =>
         columnsCache[cacheKey(getTargetSchema, t)][1] \in RefColumnLists(t)
  /\ \A p \in Procs :
       /\ sproc[p].tables # <<>> => sproc[p].tables \in RefTableLists
       /\ sproc[p].result.kind = "tables" => sproc[p].result.value \in RefTableLists
       /\ sproc[p].result.kind = "columns" =>
            sproc[p].result.value \in RefColumnLists(sproc[p].arg)

\* a call that assigns a cache entry leaves in it exactly the list it got
LastWriterRemains ==
  \A p \in Procs :
    (sproc'[p].stored > sproc[p].stored) =>
      IF sproc[p].pc = "tablesWait"
      THEN tablesCache' =
             << IF sproc[p].op = "getTables" THEN sproc'[p].result.value
                ELSE sproc'[p].tables >>
      ELSE columnsCache'[cacheKey(getTargetSchema, sproc[p].arg)] =
             << sproc'[p].result.value >>

\* C12: under every interleaving of lookups, clearCache() calls and database
\* changes, each cache entry and each list returned is the whole answer of
\* one query, never a mix of two; a call that stores leaves exactly its own
\* answer in the entry, so of two concurrent misses the last writer's stays.
C12_WholeValuesLastWriter == []WholeValues /\ [][LastWriterRemains]_vars

\* two concurrent misses of the table list have each queried and stored, their
\* answers differ, and the cache holds one of them
C12_Witness ==
  \E p, q \in Procs :
    /\ p # q
    /\ sproc[p].pc = "done" /\ sproc[p].op = "getTables" /\ sproc[p].stored = 1
    /\ sproc[q].pc = "done" /\ sproc[q].op = "getTables" /\ sproc[q].stored = 1
    /\ sproc[p].result.value # sproc[q].result.value
    /\ tablesCache = <<sproc[q].result.value>>

(***************************************************************************)
(* The schema tools.                                                       *)
(***************************************************************************)
\* a db.describeTable call has returned its result
DescribeTableReturned ==
  tool.pc = "done" /\ tool.name = "db.describeTable" /\ tool.resp.kind = "toolResult"

RowsOf(list) == {list[i] : i \in DOMAIN list}

\* C13: the primaryKeys of a db.describeTable result are exactly the rows of
\* the primary-key list the store returned whose tableName is the requested
\* table, each once, in ascending keyOrdinal, whatever order the store
\* returned them in; its columns are the column lookup's list as it came.
C13_PrimaryKeysFilteredSorted ==
  DescribeTableReturned =>
    LET out == tool.resp.primaryKeys
    IN  /\ RowsOf(out) = {r \in RowsOf(tool.pks.value) : r.tableName = tool.tableName}
        /\ Len(out) = Cardinality(RowsOf(out))
        /\ \A i, j \in DOMAIN out : i < j => out[i].keyOrdinal < out[j].keyOrdinal
        /\ tool.resp.columns = tool.cols.value
        /\ tool.resp.tableName = tool.tableName

\* a result with a two-column key that the store listed in descending
\* ordinal, after the rows of another table
C13_Witness ==
  /\ DescribeTableReturned
  /\ Len(tool.resp.primaryKeys) = 2
  /\ Len(tool.pks.value) = 3
  /\ tool.pks.value[1].keyOrdinal = 2
  /\ tool.pks.value[2].tableName # tool.tableName
  /\ Len(tool.resp.columns) > 1

\* a db.getDatabaseContext call has returned its result
DatabaseContextReturned ==
  tool.pc = "done" /\ tool.name = "db.getDatabaseContext" /\ tool.resp.kind = "toolResult"

\* C14: a db.getDatabaseContext result with maxTables = n holds the first
\* min(n, total) tables of the table list, in the list's order, and the whole
\* list when maxTables is omitted; its primaryKeys and foreignKeys are the
\* whole lists the lookups gave, also for tables that were cut off; and there
\* is a result only when all three lookups have resolved.
C14_FirstTablesFullKeys ==
  DatabaseContextReturned =>
    LET all == tool.tabs.value
        out == tool.resp.tables
    IN  /\ tool.maxTables # <<>> =>
             /\ tool.maxTables[1] \in MinTablesSchema..MaxTablesSchema
             /\ Len(out) = Min2(tool.maxTables[1], Len(all))
             /\ \A i \in 1..Len(out) : out[i] = all[i]
        /\ tool.maxTables = <<>> => out = all
        /\ tool.resp.primaryKeys = tool.pks.value
        /\ tool.resp.foreignKeys = tool.fks.value
        /\ \A k \in {tool.tabs, tool.pks, tool.fks} : k.st = "resolved"

\* maxTables = 1 with two tables in the list: one table returned, the keys of
\* the other one still in the result
C14_Witness ==
  /\ DatabaseContextReturned
  /\ tool.maxTables = <<1>>
  /\ Len(tool.tabs.value) = 2
  /\ Len(tool.resp.tables) = 1
  /\ \E i \in DOMAIN tool.resp.primaryKeys :
       tool.resp.primaryKeys[i].tableName = tool.tabs.value[2].tableName
  /\ \E i \in DOMAIN tool.resp.foreignKeys :
       tool.resp.foreignKeys[i].fromTable = tool.tabs.value[2].tableName

\* a db.describeTable call whose column lookup failed with NotFound
DescribeTableNotFound ==
  /\ tool.pc = "done"
  /\ tool.name = "db.describeTable"
  /\ tool.cols.st = "rejected"
  /\ tool.cols.error.kind = "notFound"

\* C15: a NotFound failure of db.describeTable is returned by the handler as
\* a tool output with the error flag set, and is never thrown out of the
\* handler.
C15_NotFoundReturnedNotThrown ==
  DescribeTableNotFound =>
    /\ tool.resp.kind = "toolResult"
    /\ tool.resp.isError

\* the three core tools of the tool surface
CoreToolNames == {"db.describeTable", "db.getDatabaseContext", "db.select"}

\* C16: every server that createAdventureWorksServer() returns has the three
\* core tools db.describeTable, db.getDatabaseContext and db.select
\* registered.
C16_CoreToolsRegistered ==
  registered # {} => CoreToolNames \subseteq registered

\* C18: the schema field of a db.getDatabaseContext result is the schema that
\* was bound as @schema in the table, primary-key and foreign-key lookups
\* whose results the result holds.
C18_ReportedSchemaIsBoundSchema ==
  DatabaseContextReturned =>
    /\ tool.resp.schema = tool.pks.bound
    /\ tool.resp.schema = tool.fks.bound
    /\ \A i \in DOMAIN tool.tabs.value : tool.tabs.value[i].schema = tool.resp.schema

(***************************************************************************)
(* SQLClient.                                                              *)
(***************************************************************************)
\* C17: a pool that has emitted an error is not the stored handle and no
\* query call is given it by getPool(), at whatever moment the error came,
\* also while connect() was pending; and a pool whose connect failed is not
\* the stored handle.
C17_ErroredPoolDiscarded ==
  /\ \A i \in DOMAIN pools : pools[i].errored => pool # i
  /\ \A p \in Procs : qproc[p].pc = "querying" => ~qproc[p].gotErrored
  /\ \A i \in DOMAIN pools : pools[i].st = "failed" => pool # i

(***************************************************************************)
(* SchemaService: clearing and failing.                                    *)
(***************************************************************************)
\* C19: once clearCache() has returned, a lookup that began before it and is
\* still in flight does not assign a cache with what it fetched.
C19_NoFillAfterClear ==
  [][\A p \in Procs :
       p \in beganBeforeClear => sproc'[p].stored = sproc[p].stored]_vars

\* a call that has ended in a failure: its query rejected, or NotFound
FailedCall(r) == r.pc = "done" /\ r.result.kind \in {"queryError", "notFound"}

\* C20 as stated: a getTables() or getTableSchema() call that fails leaves
\* both caches as they were before the call: it has assigned neither.
C20_FailedCallStoredNothing ==
  \A p \in Procs : FailedCall(sproc[p]) => sproc[p].stored = 0

\* the step in which a call fails assigns no cache
FailingStepStoresNothing ==
  \A p \in Procs :
    (~FailedCall(sproc[p]) /\ FailedCall(sproc'[p])) =>
       (tablesCache' = tablesCache /\ columnsCache' = columnsCache)

\* a failed call has made no assignment but, at most, the table list that
\* getTableSchema() fetched on its way
FailedCallStoredOnlyTableList ==
  \A p \in Procs :
    FailedCall(sproc[p]) =>
      /\ sproc[p].stored <= 1
      /\ sproc[p].op = "getTables" => sproc[p].stored = 0
      /\ sproc[p].stored = 1 => (sproc[p].op = "getTableSchema" /\ sproc[p].miss = 2)

\* a call that begins while its entry is absent is not answered from a cache
AbsentEntryIsLookedUp ==
  \A p \in Procs :
    (sproc[p].pc = "idle" /\ sproc'[p].pc # "idle") =>
      /\ (sproc'[p].op = "getTables" /\ tablesCache = <<>>) =>
            (sproc'[p].pc = "tablesWait" /\ sproc'[p].nq = 1)
      /\ (sproc'[p].op = "getTableSchema"
            /\ columnsCache[cacheKey(getTargetSchema, sproc'[p].arg)] = <<>>) =>
            sproc'[p].pc \in {"tablesWait", "haveTables"}

\* C20 (amended): a failed query and a NotFound store nothing in the step
\* that fails and no entry for the key that failed, so the entry stays absent
\* and the next call looks it up again; the one assignment a failed
\* getTableSchema() can have made is the table list it fetched before failing.
C20_FailureStoresNoEntry ==
  /\ [][FailingStepStoresNothing]_vars
  /\ []FailedCallStoredOnlyTableList
  /\ [][AbsentEntryIsLookedUp]_vars

\* one caller failed with NotFound after filling the table list, another
\* failed on its table query; the failed column entry is absent
C20_Witness ==
  \E p, q \in Procs :
    /\ FailedCall(sproc[p])
    /\ sproc[p].result.kind = "notFound"
    /\ sproc[p].stored = 1
    /\ tablesCache # <<>>
    /\ columnsCache[cacheKey(getTargetSchema, sproc[p].arg)] = <<>>
    /\ FailedCall(sproc[q])
    /\ sproc[q].op = "getTables"
    /\ sproc[q].result.kind = "queryError"

(***************************************************************************)
(* SQLClient: one pool.                                                    *)
(***************************************************************************)
\* the pools that were created and have neither failed to connect nor
\* emitted an error
LivePools ==
  {i \in DOMAIN pools : pools[i].st \in {"connecting", "connected"} /\ ~pools[i].errored}

\* C21: a pool is created only when no handle is stored and no creation is
\* in progress, so under every interleaving of query calls at most one pool
\* is being connected or connected at a time, and every connected pool is the
\* one the singleton handle refers to until it emits an error.
C21_AtMostOnePool ==
  /\ Cardinality(LivePools) <= 1
  /\ \A i \in LivePools : pools[i].st = "connected" => pool = i

=============================================================================
